---- MODULE Spec2Model ----
(***************************************************************************)
(* Emerald Health: the symptom analyzer (src/lib/ai-helpers.ts) and the    *)
(* practitioner lookup (src/ai/flows/find-practitioners.ts).                *)
(*                                                                         *)
(* A JavaScript string is a sequence of one-character strings, so that     *)
(* split, trim, toLowerCase, includes and JSON.parse are computed on the   *)
(* characters as the runtime computes them.                                *)
(***************************************************************************)
EXTENDS Integers, Sequences, FiniteSets, TLC

VARIABLES
  pc,            \* position of the analyzeSymptoms call
  input,         \* its argument: [symptoms, photoDataUri]
  requests,      \* generateContent requests issued by the current call
  text,          \* response.text() of the current call
  branch,        \* which return statement produced the result
  result,        \* the value the call resolved with
  lookup,        \* the latest findPractitioners call and what it returned
  earlier,       \* a findPractitioners call made before it
  env,           \* process.env.NEXT_PUBLIC_GOOGLE_AI_API_KEY
  moduleState,   \* evaluation of the ai-helpers module
  genAI,         \* the GoogleGenerativeAI client of the module
  isLoading,     \* page state: a submit is being processed
  analysis,      \* page state: the result on display, or null
  imagePreview,  \* page state: the data URI of the chosen photo, or null
  toast,         \* the latest toast the page raised
  calls,         \* analyzeSymptoms calls started by onSubmit and not resumed
  submits,       \* number of onSubmit runs so far
  shown          \* the call whose result is on display

vars == <<pc, input, requests, text, branch, result, lookup, earlier,
          env, moduleState, genAI,
          isLoading, analysis, imagePreview, toast, calls, submits, shown>>

analyzerVars == <<pc, input, requests, text, branch, result>>
lookupVars == <<lookup, earlier>>
moduleVars == <<env, moduleState, genAI>>
pageVars == <<isLoading, analysis, imagePreview, toast, calls, submits, shown>>

(***************************************************************************)
(* Bounds.                                                                 *)
(***************************************************************************)
\* an upstream response is a concatenation of at most MaxChunks fragments
MaxChunks == 3
\* on the page, an upstream response is a concatenation of at most
\* MaxPageChunks fragments
MaxPageChunks == 3
\* onSubmit runs in one behaviour of the page
MaxSubmits == 3
\* a location query is a concatenation of at most MaxQueryWords of the
\* sample queries
MaxQueryWords == 1

(***************************************************************************)
(* JavaScript values.  Every value has the same five fields so that any    *)
(* two values can be compared.                                             *)
(***************************************************************************)
Value(t, b, s, o) == [t |-> t, b |-> b, s |-> s, o |-> o]
undefined == Value("undefined", FALSE, <<>>, <<>>)
null      == Value("null", FALSE, <<>>, <<>>)
Bool(b)   == Value("boolean", b, <<>>, <<>>)
Str(s)    == Value("string", FALSE, s, <<>>)
Num(s)    == Value("number", FALSE, s, <<>>)
\* an object is its members <<key, value>> in source order
Obj(o)    == Value("object", FALSE, <<>>, o)

\* undefined and the empty string are falsy
Falsy(v) == v.t = "undefined" \/ (v.t = "string" /\ v.s = <<>>)

Min(S) == CHOOSE x \in S : \A y \in S : x <= y
Max(S) == CHOOSE x \in S : \A y \in S : x >= y

(***************************************************************************)
(* String.prototype methods used by the code.                              *)
(***************************************************************************)
WhiteSpace == {" ", "\n", "\t", "\r"}

UpperCase == <<"A","B","C","D","E","F","G","H","I","J","K","L","M",
               "N","O","P","Q","R","S","T","U","V","W","X","Y","Z">>
LowerCase == <<"a","b","c","d","e","f","g","h","i","j","k","l","m",
               "n","o","p","q","r","s","t","u","v","w","x","y","z">>

LowerCaseOf ==
  [c \in {UpperCase[k] : k \in 1..26} |->
     LowerCase[CHOOSE k \in 1..26 : UpperCase[k] = c]]

toLowerCaseChar(c) == IF c \in DOMAIN LowerCaseOf THEN LowerCaseOf[c] ELSE c

toLowerCase(s) == [i \in 1..Len(s) |-> toLowerCaseChar(s[i])]

\* positions at which pat occurs in s
Occurrences(s, pat) ==
  {i \in 1..(Len(s) - Len(pat) + 1) : SubSeq(s, i, i + Len(pat) - 1) = pat}

includes(s, pat) == Occurrences(s, pat) # {}

indexOf(s, pat) ==
  IF Occurrences(s, pat) = {} THEN -1 ELSE Min(Occurrences(s, pat)) - 1

trim(s) ==
  LET kept == {i \in 1..Len(s) : s[i] \notin WhiteSpace}
  IN  IF kept = {} THEN <<>> ELSE SubSeq(s, Min(kept), Max(kept))

\* split on a non-empty separator: every occurrence, left to right
RECURSIVE split(_, _)
split(s, sep) ==
  IF Occurrences(s, sep) = {}
  THEN <<s>>
  ELSE LET i == Min(Occurrences(s, sep))
       IN  <<SubSeq(s, 1, i - 1)>>
             \o split(SubSeq(s, i + Len(sep), Len(s)), sep)

(***************************************************************************)
(* JSON.parse, for documents made of objects, strings without escapes,     *)
(* unsigned integers, true, false and null.  A parse step returns          *)
(* [ok, v, i]: whether a value was read, the value, the next position.     *)
(***************************************************************************)
Digits == {"0","1","2","3","4","5","6","7","8","9"}
Failed == [ok |-> FALSE, v |-> undefined, i |-> 0]
Read(v, i) == [ok |-> TRUE, v |-> v, i |-> i]

RECURSIVE SkipWhiteSpace(_, _)
SkipWhiteSpace(s, i) ==
  IF i <= Len(s) /\ s[i] \in WhiteSpace THEN SkipWhiteSpace(s, i + 1) ELSE i

StartsWith(s, i, lit) ==
  /\ i + Len(lit) - 1 <= Len(s)
  /\ SubSeq(s, i, i + Len(lit) - 1) = lit

\* s[i] is the opening quote
ParseString(s, i) ==
  LET closing == {j \in (i + 1)..Len(s) : s[j] = "\""}
  IN  IF closing = {} THEN Failed
      ELSE LET j == Min(closing)
               body == SubSeq(s, i + 1, j - 1)
           IN  IF \E k \in 1..Len(body) : body[k] \in {"\n", "\t", "\r", "\\"}
               THEN Failed
               ELSE Read(Str(body), j + 1)

RECURSIVE EndOfDigits(_, _)
EndOfDigits(s, i) ==
  IF i <= Len(s) /\ s[i] \in Digits THEN EndOfDigits(s, i + 1) ELSE i

\* s[i] is a digit; a leading zero ends the number
ParseNumber(s, i) ==
  LET j == IF s[i] = "0" THEN i + 1 ELSE EndOfDigits(s, i)
  IN  Read(Num(SubSeq(s, i, j - 1)), j)

RECURSIVE ParseValue(_, _), ParseMembers(_, _, _)
ParseValue(s, i0) ==
  LET i == SkipWhiteSpace(s, i0)
  IN  IF i > Len(s) THEN Failed
      ELSE IF s[i] = "{" THEN
             LET j == SkipWhiteSpace(s, i + 1)
             IN  IF j <= Len(s) /\ s[j] = "}" THEN Read(Obj(<<>>), j + 1)
                 ELSE ParseMembers(s, j, <<>>)
      ELSE IF s[i] = "\"" THEN ParseString(s, i)
      ELSE IF s[i] \in Digits THEN ParseNumber(s, i)
      ELSE IF StartsWith(s, i, <<"t","r","u","e">>) THEN Read(Bool(TRUE), i + 4)
      ELSE IF StartsWith(s, i, <<"f","a","l","s","e">>) THEN Read(Bool(FALSE), i + 5)
      ELSE IF StartsWith(s, i, <<"n","u","l","l">>) THEN Read(null, i + 4)
      ELSE Failed

\* the members of an object from position i0 (a key is expected), after acc
ParseMembers(s, i0, acc) ==
  LET i == SkipWhiteSpace(s, i0)
  IN  IF i > Len(s) \/ s[i] # "\"" THEN Failed
      ELSE LET key == ParseString(s, i)
           IN  IF ~key.ok THEN Failed
               ELSE LET c == SkipWhiteSpace(s, key.i)
                    IN  IF c > Len(s) \/ s[c] # ":" THEN Failed
                        ELSE LET val == ParseValue(s, c + 1)
                             IN  IF ~val.ok THEN Failed
                                 ELSE LET e == SkipWhiteSpace(s, val.i)
                                          all == Append(acc, <<key.v.s, val.v>>)
                                      IN  IF e > Len(s) THEN Failed
                                          ELSE IF s[e] = "}" THEN Read(Obj(all), e + 1)
                                          ELSE IF s[e] = "," THEN ParseMembers(s, e + 1, all)
                                          ELSE Failed

\* [ok |-> FALSE] stands for the SyntaxError JSON.parse throws
JSONparse(s) ==
  LET r == ParseValue(s, 1)
  IN  IF r.ok /\ SkipWhiteSpace(s, r.i) > Len(s) THEN r ELSE Failed

(***************************************************************************)
(* analyzeSymptoms (src/lib/ai-helpers.ts).                                *)
(***************************************************************************)
Dashes == <<"-","-","-">>
isSeriousKey ==
  <<"i","s","S","e","r","i","o","u","s">>
suggestImmediateActionKey ==
  <<"s","u","g","g","e","s","t","I","m","m","e","d","i","a","t","e","A","c",
    "t","i","o","n">>
serious ==
  <<"s","e","r","i","o","u","s">>
severe ==
  <<"s","e","v","e","r","e">>
immediate ==
  <<"i","m","m","e","d","i","a","t","e">>
emergency ==
  <<"e","m","e","r","g","e","n","c","y">>

\* the instruction text around the interpolated symptoms, abbreviated
PromptHead == <<"S","y","m","p","t","o","m","s",":"," ">>
PromptTail == <<"\n","#"," ","L","i","k","e","l","y"," ","C","a","u","s","e">>
prompt(in) == PromptHead \o in.symptoms \o PromptTail

\* the argument list of model.generateContent
generateContent(in) == <<Str(prompt(in))>>

\* text.split('---').map(part => part.trim())
parts(t) ==
  LET pieces == split(t, Dashes)
  IN  [k \in 1..Len(pieces) |-> trim(pieces[k])]

\* array destructuring: a missing element is undefined
jsonPart(t) == parts(t)[1]
markdownPart(t) == IF Len(parts(t)) >= 2 THEN Str(parts(t)[2]) ELSE undefined

\* v[key]: the last member of that name; undefined on a primitive
Get(v, key) ==
  LET hits == {k \in 1..Len(v.o) : v.o[k][1] = key}
  IN  IF v.t = "object" /\ hits # {} THEN v.o[Max(hits)][2] ELSE undefined

\* the try block throws on a SyntaxError and on destructuring null
tryThrows(t) ==
  LET parsed == JSONparse(jsonPart(t))
  IN  ~parsed.ok \/ parsed.v.t = "null"

tryReturn(t) ==
  LET parsed == JSONparse(jsonPart(t))
  IN  [isSerious              |-> Get(parsed.v, isSeriousKey),
       explanation            |-> markdownPart(t),
       suggestImmediateAction |-> Get(parsed.v, suggestImmediateActionKey)]

\* a catch block that matches the keywords without lowercasing the text
catchReturnCaseSensitive(t) ==
  [isSerious              |-> Bool(includes(t, serious) \/ includes(t, severe)),
   explanation            |-> Str(t),
   suggestImmediateAction |-> Bool(includes(t, immediate) \/ includes(t, emergency))]

catchReturn(t) ==
  LET lower == toLowerCase(t)
  IN  [isSerious              |-> Bool(\/ includes(lower, serious)
                                       \/ includes(lower, severe)),
       explanation            |-> Str(t),
       suggestImmediateAction |-> Bool(\/ includes(lower, immediate)
                                       \/ includes(lower, emergency))]

(***************************************************************************)
(* Inputs: what callers pass and what the upstream model can answer.       *)
(***************************************************************************)
Symptoms == {<<"f","e","v","e","r">>, <<"r","a","s","h">>}
Photos == {undefined, Str(<<"d","a","t","a",":","i","m","g">>)}
Inputs == [symptoms : Symptoms, photoDataUri : Photos]

JsonFlags ==
  <<"{","\"","i","s","S","e","r","i","o","u","s","\"",":","t","r","u","e",
    ",","\"","s","u","g","g","e","s","t","I","m","m","e","d","i","a","t",
    "e","A","c","t","i","o","n","\"",":","f","a","l","s","e","}">>
JsonOneFlag ==
  <<"{","\"","i","s","S","e","r","i","o","u","s","\"",":","t","r","u","e",
    "}">>
JsonCut ==
  <<"{","\"","i","s","S","e","r","i","o","u","s","\"",":","t","r","u">>
JsonNull ==
  <<"n","u","l","l">>
JsonNumber ==
  <<"7">>
DelimiterLine ==
  <<"\n","-","-","-","\n">>
Markdown ==
  <<"#"," ","L","i","k","e","l","y"," ","C","a","u","s","e","\n","F","l",
    "u",".">>
Emergency ==
  <<"E","M","E","R","G","E","N","C","Y"," ">>
Severe ==
  <<"S","e","v","e","r","e">>
Rest ==
  <<"R","e","s","t",".","\n">>

Fragments == {JsonFlags, JsonOneFlag, JsonCut, JsonNull, JsonNumber,
              DelimiterLine, Markdown, Emergency, Severe, Rest}

RECURSIVE Concat(_)
Concat(ss) == IF ss = <<>> THEN <<>> ELSE Head(ss) \o Concat(Tail(ss))

Texts == {Concat(ss) : ss \in UNION {[1..n -> Fragments] : n \in 0..MaxChunks}}

NoInput == [symptoms |-> <<>>, photoDataUri |-> undefined]
NoResult == [isSerious |-> undefined, explanation |-> undefined,
             suggestImmediateAction |-> undefined]

(***************************************************************************)
(* Evaluation of the module (lines 3-7): the key check, then the client.   *)
(***************************************************************************)
ApiKey == <<"k","e","y">>
EnvValues == {undefined, Str(<<>>), Str(ApiKey)}

NoClient == [apiKey |-> undefined]
GoogleGenerativeAI(key) == [apiKey |-> key]

\* a key check that only catches an unset variable
LoadModuleUnlessUndefined ==
  /\ moduleState = "pending"
  /\ IF env = undefined
     THEN moduleState' = "failed" /\ genAI' = genAI
     ELSE moduleState' = "initialised" /\ genAI' = GoogleGenerativeAI(env)
  /\ UNCHANGED <<env, analyzerVars, lookupVars, pageVars>>

\* lines 3-7: throw when the key is falsy, else construct the client
LoadModule ==
  /\ moduleState = "pending"
  /\ IF Falsy(env)
     THEN moduleState' = "failed" /\ genAI' = genAI
     ELSE moduleState' = "initialised" /\ genAI' = GoogleGenerativeAI(env)
  /\ UNCHANGED <<env, analyzerVars, lookupVars, pageVars>>

InitModule ==
  /\ env = Str(ApiKey)
  /\ moduleState = "initialised"
  /\ genAI = GoogleGenerativeAI(env)

(***************************************************************************)
(* The steps of one analyzeSymptoms call.                                  *)
(***************************************************************************)
\* lines 20-65: build the model and the prompt, issue the request, suspend
Call(in) ==
  /\ moduleState = "initialised"
  /\ pc = "idle"
  /\ pc' = "generateContent"
  /\ input' = in
  /\ requests' = Append(requests, generateContent(in))
  /\ UNCHANGED <<text, branch, result, lookupVars, moduleVars, pageVars>>

\* a rejected request that is issued again instead of propagating
GenerateContentRetries ==
  /\ pc = "generateContent"
  /\ requests' = Append(requests, generateContent(input))
  /\ UNCHANGED <<pc, input, text, branch, result, lookupVars, moduleVars, pageVars>>

\* line 65: the awaited request rejects (transport, auth); nothing catches it
GenerateContentRejects ==
  /\ pc = "generateContent"
  /\ pc' = "rejected"
  /\ UNCHANGED <<input, requests, text, branch, result, lookupVars, moduleVars, pageVars>>

\* lines 65-66: the request resolves with a response
GenerateContentResolves ==
  /\ pc = "generateContent"
  /\ pc' = "response"
  /\ UNCHANGED <<input, requests, text, branch, result, lookupVars, moduleVars, pageVars>>

\* line 67: response.text() throws (blocked or empty candidates), uncaught
TextThrows ==
  /\ pc = "response"
  /\ pc' = "rejected"
  /\ UNCHANGED <<input, requests, text, branch, result, lookupVars, moduleVars, pageVars>>

\* lines 67-89: response.text() returns t; the try block or its catch returns
TextReturns(t) ==
  /\ pc = "response"
  /\ pc' = "resolved"
  /\ text' = t
  /\ LET threw == tryThrows(t)
     IN  /\ branch' = IF threw THEN "catch" ELSE "try"
         /\ result' = IF threw THEN catchReturn(t) ELSE tryReturn(t)
  /\ UNCHANGED <<input, requests, lookupVars, moduleVars, pageVars>>

\* the caller has the outcome; the next call starts from scratch
Settled ==
  /\ pc \in {"resolved", "rejected"}
  /\ pc' = "idle"
  /\ input' = NoInput
  /\ requests' = <<>>
  /\ text' = <<>>
  /\ branch' = "none"
  /\ result' = NoResult
  /\ UNCHANGED <<lookupVars, moduleVars, pageVars>>

InitAnalyzer ==
  /\ pc = "idle"
  /\ input = NoInput
  /\ requests = <<>>
  /\ text = <<>>
  /\ branch = "none"
  /\ result = NoResult

NextAnalyzer ==
  \/ \E in \in Inputs : Call(in)
  \/ GenerateContentRejects
  \/ GenerateContentResolves
  \/ TextThrows
  \/ \E t \in Texts : TextReturns(t)
  \/ Settled

(***************************************************************************)
(* findPractitioners (src/ai/flows/find-practitioners.ts).                 *)
(***************************************************************************)
Practitioner(name, specialty, address, phone, isHospital) ==
  [name |-> name, specialty |-> specialty, address |-> address,
   phone |-> phone, isHospital |-> isHospital]

datasets ==
  [dublin |-> <<
     Practitioner("Grand Canal Medical Clinic", "General Practitioner",
                  "21 Grand Canal Street Upper, Dublin 4, D04",
                  "+353 1 555 2143", FALSE),
     Practitioner("St. Stephen's Green Family Practice", "General Practitioner",
                  "8 Harcourt Street, Dublin 2, D02",
                  "+353 1 555 0087", FALSE),
     Practitioner("Dublin City Cardiology Centre", "Cardiology",
                  "45 Gardiner Street Upper, Dublin 1, D01",
                  "+353 1 555 7321", FALSE),
     Practitioner("Mater Misericordiae University Hospital",
                  "Emergency & General Hospital",
                  "Eccles St, Phibsborough, Dublin 7, D07",
                  "+353 1 803 2000", TRUE) >>,
   cork |-> <<
     Practitioner("Lee Side Family Practice", "General Practitioner",
                  "14 Washington Street, Cork City, T12",
                  "+353 21 555 6612", FALSE),
     Practitioner("Cork Women's Health Clinic", "Women's Health",
                  "3 Patrick's Quay, Cork City, T12",
                  "+353 21 555 7741", FALSE),
     Practitioner("Cork University Hospital", "Emergency & General Hospital",
                  "Wilton, Cork, T12",
                  "+353 21 492 2000", TRUE) >>,
   galway |-> <<
     Practitioner("Eyre Square Medical Practice", "General Practitioner",
                  "12 Eyre Square, Galway, H91",
                  "+353 91 555 1020", FALSE),
     Practitioner("Galway Respiratory Clinic", "Respiratory Medicine",
                  "College Rd, Galway, H91",
                  "+353 91 555 3344", FALSE),
     Practitioner("University Hospital Galway", "Emergency & General Hospital",
                  "Newcastle Rd, Galway, H91",
                  "+353 91 544 544", TRUE) >>]

Ireland ==
  <<"I","r","e","l","a","n","d">>
dublin ==
  <<"d","u","b","l","i","n">>
cork ==
  <<"c","o","r","k">>
galway ==
  <<"g","a","l","w","a","y">>

\* calling a method of undefined throws a TypeError
TypeError == Value("TypeError", FALSE, <<>>, <<>>)
toLowerCaseOf(v) == IF v.t = "string" THEN Str(toLowerCase(v.s)) ELSE TypeError

\* a location that is lowercased without the 'Ireland' default
locationNoDefault(in) == toLowerCaseOf(in.locationQuery)

\* a location that takes the default but keeps the letter case
locationCaseSensitive(in) ==
  IF Falsy(in.locationQuery) THEN Str(Ireland) ELSE in.locationQuery

\* (input.locationQuery || 'Ireland').toLowerCase()
location(in) ==
  toLowerCaseOf(IF Falsy(in.locationQuery) THEN Str(Ireland) ELSE in.locationQuery)

\* JavaScript arrays are indexed from 0
At(list, k) == list[k + 1]

\* a pick whose default sample ends with the third Galway record
pickGalwayLast(loc) ==
  IF includes(loc, dublin) THEN datasets.dublin
  ELSE IF includes(loc, cork) THEN datasets.cork
  ELSE IF includes(loc, galway) THEN datasets.galway
  ELSE <<At(datasets.dublin, 0),
         At(datasets.cork, 0),
         At(datasets.galway, 0),
         At(datasets.dublin, 2),
         At(datasets.galway, 2)>>

\* a pick that returns the list of the city mentioned first in the query
pickEarliestMention(loc) ==
  LET named == {c \in {dublin, cork, galway} : includes(loc, c)}
      first == CHOOSE c \in named : \A d \in named : indexOf(loc, c) <= indexOf(loc, d)
  IN  IF named = {}
      THEN <<At(datasets.dublin, 0),
             At(datasets.cork, 0),
             At(datasets.galway, 0),
             At(datasets.dublin, 2),
             At(datasets.cork, 2)>>
      ELSE IF first = dublin THEN datasets.dublin
      ELSE IF first = cork THEN datasets.cork
      ELSE datasets.galway

\* a pick that tests the cities in the opposite order
pickGalwayFirst(loc) ==
  IF includes(loc, galway) THEN datasets.galway
  ELSE IF includes(loc, cork) THEN datasets.cork
  ELSE IF includes(loc, dublin) THEN datasets.dublin
  ELSE <<At(datasets.dublin, 0),
         At(datasets.cork, 0),
         At(datasets.galway, 0),
         At(datasets.dublin, 2),
         At(datasets.cork, 2)>>

pick(loc) ==
  IF includes(loc, dublin) THEN datasets.dublin
  ELSE IF includes(loc, cork) THEN datasets.cork
  ELSE IF includes(loc, galway) THEN datasets.galway
  ELSE <<At(datasets.dublin, 0),
         At(datasets.cork, 0),
         At(datasets.galway, 0),
         At(datasets.dublin, 2),
         At(datasets.cork, 2)>>

\* the promise rejects when a statement of the body throws
findPractitioners(in) ==
  LET loc == location(in)
  IN  IF loc.t = "TypeError"
      THEN [rejected |-> TRUE, practitioners |-> <<>>]
      ELSE [rejected |-> FALSE, practitioners |-> pick(loc.s)]

QDublinIreland ==
  <<"D","u","b","l","i","n",","," ","I","r","e","l","a","n","d">>
QDublin ==
  <<"D","u","b","l","i","n">>
QCorkUpper ==
  <<"C","O","R","K">>
QCorkLower ==
  <<"c","o","r","k">>
QGalway ==
  <<"g","a","l","w","a","y">>
QAtlantis ==
  <<"A","t","l","a","n","t","i","s">>
QGalwayOrDublin ==
  <<"g","a","l","w","a","y"," ","o","r"," ","d","u","b","l","i","n">>
QGalwayCork ==
  <<"g","a","l","w","a","y"," ","c","o","r","k">>

QueryWords == {QDublinIreland, QDublin, QCorkUpper, QCorkLower, QGalway,
               QAtlantis, QGalwayOrDublin, QGalwayCork}

LocationQueries ==
  {undefined, Str(<<>>)} \cup
  {Str(Concat(ws)) : ws \in UNION {[1..n -> QueryWords] : n \in 1..MaxQueryWords}}

NoCall == [locationQuery |-> undefined, rejected |-> FALSE, practitioners |-> <<>>]

\* one call: the function has no await, so it runs from entry to return in
\* one step.  The call it replaces may be kept as the remembered earlier call.
Find(q, keep) ==
  /\ LET out == findPractitioners([locationQuery |-> q])
     IN  lookup' = [locationQuery |-> q, rejected |-> out.rejected,
                    practitioners |-> out.practitioners]
  /\ earlier' = IF keep /\ lookup # NoCall THEN lookup ELSE earlier
  /\ UNCHANGED <<analyzerVars, moduleVars, pageVars>>

InitLookup ==
  /\ lookup = NoCall
  /\ earlier = NoCall

NextLookup == \E q \in LocationQueries, keep \in BOOLEAN : Find(q, keep)


(***************************************************************************)
(* SymptomCheckerPage: the state hooks, handleImageChange, onSubmit and    *)
(* parseExplanation.                                                       *)
(***************************************************************************)
MinSymptomsLength == 10

FeverAndCough ==
  <<"f","e","v","e","r"," ","a","n","d"," ","c","o","u","g","h">>
\* what the user may have typed: one description the schema accepts and one
\* it refuses
FormSymptoms == {FeverAndCough, <<"r","a","s","h">>}

PhotoUri == <<"d","a","t","a",":","i","m","g">>

PageFragments == {JsonFlags, JsonCut, DelimiterLine, Markdown}
PageTexts ==
  {Concat(ss) : ss \in UNION {[1..n -> PageFragments] : n \in 0..MaxPageChunks}}

Marker ==
  <<"#"," ","L","i","k","e","l","y"," ","C","a","u","s","e">>

\* String.prototype.substring(from), from counted from 0
substring(s, from) == SubSeq(s, from + 1, Len(s))

\* a parseExplanation that also cuts the marker off
parseExplanationPastMarker(explanation) ==
  IF explanation.t # "string" THEN explanation
  ELSE LET markdownStart == indexOf(explanation.s, Marker)
       IN  IF markdownStart # -1
           THEN Str(substring(explanation.s, markdownStart + Len(Marker)))
           ELSE explanation

\* lines 78-89; indexOf of a value that is no string throws, and the catch
\* returns the value as it came
parseExplanation(explanation) ==
  IF explanation.t # "string" THEN explanation
  ELSE LET markdownStart == indexOf(explanation.s, Marker)
       IN  IF markdownStart # -1
           THEN Str(substring(explanation.s, markdownStart))
           ELSE explanation

\* line 283: what the result card shows
Displayed == parseExplanation(analysis.explanation)

NoCallShown == [id |-> 0]

\* lines 37-54: a file is chosen; one over 10MB raises a toast, any other is
\* read into imagePreview
HandleImageChange(tooLarge) ==
  /\ IF tooLarge
     THEN toast' = "File too large" /\ imagePreview' = imagePreview
     ELSE imagePreview' = Str(PhotoUri) /\ toast' = toast
  /\ UNCHANGED <<isLoading, analysis, calls, submits, shown,
                 analyzerVars, lookupVars, moduleVars>>

\* lines 63: imagePreview || undefined
photoDataUri == IF imagePreview = null THEN undefined ELSE imagePreview

\* an onSubmit that can start while a submit is being processed
OnSubmitWhileLoading(symptoms) ==
  /\ Len(symptoms) >= MinSymptomsLength
  /\ submits < MaxSubmits
  /\ isLoading' = TRUE
  /\ analysis' = null
  /\ shown' = NoCallShown
  /\ submits' = submits + 1
  /\ calls' = calls \cup
       {[id |-> submits + 1, state |-> "pending",
         input |-> [symptoms |-> symptoms, photoDataUri |-> photoDataUri],
         text |-> <<>>, branch |-> "none", result |-> NoResult]}
  /\ UNCHANGED <<imagePreview, toast, analyzerVars, lookupVars, moduleVars>>

\* lines 56-64 behind the submit button (disabled={isLoading}, line 165) and
\* the schema of line 17: set the loading state, clear the result, start
\* the call and suspend
OnSubmit(symptoms) ==
  /\ ~isLoading
  /\ Len(symptoms) >= MinSymptomsLength
  /\ submits < MaxSubmits
  /\ isLoading' = TRUE
  /\ analysis' = null
  /\ shown' = NoCallShown
  /\ submits' = submits + 1
  /\ calls' = calls \cup
       {[id |-> submits + 1, state |-> "pending",
         input |-> [symptoms |-> symptoms, photoDataUri |-> photoDataUri],
         text |-> <<>>, branch |-> "none", result |-> NoResult]}
  /\ UNCHANGED <<imagePreview, toast, analyzerVars, lookupVars, moduleVars>>

\* the awaited analyzeSymptoms call resolves: the upstream text was t
CallResolves(c, t) ==
  /\ c.state = "pending"
  /\ LET threw == tryThrows(t)
     IN  calls' = (calls \ {c}) \cup
           {[c EXCEPT !.state = "resolved", !.text = t,
                      !.branch = IF threw THEN "catch" ELSE "try",
                      !.result = IF threw THEN catchReturn(t) ELSE tryReturn(t)]}
  /\ UNCHANGED <<isLoading, analysis, imagePreview, toast, submits, shown,
                 analyzerVars, lookupVars, moduleVars>>

\* the awaited analyzeSymptoms call rejects
CallRejects(c) ==
  /\ c.state = "pending"
  /\ calls' = (calls \ {c}) \cup {[c EXCEPT !.state = "rejected"]}
  /\ UNCHANGED <<isLoading, analysis, imagePreview, toast, submits, shown,
                 analyzerVars, lookupVars, moduleVars>>

\* an onSubmit whose loading state is reset only after a success
ResumeWithoutFinally(c) ==
  /\ c.state \in {"resolved", "rejected"}
  /\ calls' = calls \ {c}
  /\ IF c.state = "resolved"
     THEN /\ analysis' = c.result
          /\ shown' = c
          /\ toast' = toast
          /\ isLoading' = FALSE
     ELSE /\ toast' = "Analysis Failed"
          /\ UNCHANGED <<analysis, shown, isLoading>>
  /\ UNCHANGED <<imagePreview, submits, analyzerVars, lookupVars, moduleVars>>

\* lines 65-75: onSubmit resumes after the await: setAnalysis(result) or
\* the toast of the catch block, then the finally block
Resume(c) ==
  /\ c.state \in {"resolved", "rejected"}
  /\ calls' = calls \ {c}
  /\ IF c.state = "resolved"
     THEN /\ analysis' = c.result
          /\ shown' = c
          /\ toast' = toast
     ELSE /\ toast' = "Analysis Failed"
          /\ UNCHANGED <<analysis, shown>>
  /\ isLoading' = FALSE
  /\ UNCHANGED <<imagePreview, submits, analyzerVars, lookupVars, moduleVars>>

\* lines 25-27: the initial values of the state hooks
InitPage ==
  /\ isLoading = FALSE
  /\ analysis = null
  /\ imagePreview = null
  /\ toast = "none"
  /\ calls = {}
  /\ submits = 0
  /\ shown = NoCallShown

ResumeAny == \E c \in calls : Resume(c)

NextPage ==
  \/ \E tooLarge \in BOOLEAN : HandleImageChange(tooLarge)
  \/ \E symptoms \in FormSymptoms : OnSubmit(symptoms)
  \/ \E c \in calls, t \in PageTexts : CallResolves(c, t)
  \/ \E c \in calls : CallRejects(c)
  \/ ResumeAny

(***************************************************************************)
(* Specifications.  The two operations share no state: AnalyzerSpec and    *)
(* LookupSpec run one of them with the other at rest, Spec runs both.      *)
(***************************************************************************)
Init == InitModule /\ InitAnalyzer /\ InitLookup /\ InitPage

Next == NextAnalyzer \/ NextLookup \/ NextPage

Spec == Init /\ [][Next]_vars

AnalyzerSpec == Init /\ [][NextAnalyzer]_vars

LookupSpec == Init /\ [][NextLookup]_vars

\* the process from before the module is evaluated, with any key setting
InitStartup ==
  /\ env \in EnvValues
  /\ moduleState = "pending"
  /\ genAI = NoClient
  /\ InitAnalyzer
  /\ InitLookup
  /\ InitPage

NextStartup == LoadModule \/ NextAnalyzer

StartupSpec == InitStartup /\ [][NextStartup]_vars

\* the page alone; a settled await always resumes (the continuation is a
\* microtask of the event loop)
PageSpec == Init /\ [][NextPage]_vars /\ WF_vars(ResumeAny)

(***************************************************************************)
(* Properties of analyzeSymptoms, checked under AnalyzerSpec.               *)
(***************************************************************************)
IsBoolean(v) == v.t = "boolean"
IsNonEmptyString(v) == v.t = "string" /\ v.s # <<>>

\* C1: a call that does not reject returns boolean isSerious and
\* suggestImmediateAction and a non-empty string explanation, whatever text
\* the upstream model returned.
C1_ResultWellTyped ==
  (pc = "resolved" /\ input.symptoms # <<>>) =>
     /\ IsBoolean(result.isSerious)
     /\ IsBoolean(result.suggestImmediateAction)
     /\ IsNonEmptyString(result.explanation)

\* the text before the first three-dash delimiter, trimmed
JsonSegment(t) == trim(SubSeq(t, 1, indexOf(t, Dashes)))

\* the response honours the protocol: a delimiter, and before it a JSON
\* object carrying the two boolean flags
YieldsFlags(t) ==
  /\ includes(t, Dashes)
  /\ JSONparse(JsonSegment(t)).ok
  /\ JSONparse(JsonSegment(t)).v.t = "object"
  /\ IsBoolean(Get(JSONparse(JsonSegment(t)).v, isSeriousKey))
  /\ IsBoolean(Get(JSONparse(JsonSegment(t)).v, suggestImmediateActionKey))

\* C2: whenever the JSON segment does not yield the two boolean flags
\* (malformed JSON, no delimiter, unexpected shape), the call returns the
\* fallback result: keyword-derived flags and the full raw text.
C2_FallbackWheneverNoFlags ==
  (pc = "resolved" /\ ~YieldsFlags(text)) =>
     /\ branch = "catch"
     /\ result = catchReturn(text)

\* J is a JSON object with boolean isSerious and suggestImmediateAction
IsFlagsObject(j) ==
  /\ JSONparse(j).ok
  /\ JSONparse(j).v.t = "object"
  /\ IsBoolean(Get(JSONparse(j).v, isSeriousKey))
  /\ IsBoolean(Get(JSONparse(j).v, suggestImmediateActionKey))

\* C3: round trip of the delimiter protocol: for a response J, newline,
\* three dashes, newline, M with J a JSON object holding the two boolean
\* flags, the call returns the flags written in J and M trimmed.
C3_RoundTrip ==
  pc = "resolved" =>
    \A k \in Occurrences(text, DelimiterLine) :
      LET j == SubSeq(text, 1, k - 1)
          m == SubSeq(text, k + Len(DelimiterLine), Len(text))
      IN  IsFlagsObject(j) =>
            /\ result.isSerious = Get(JSONparse(j).v, isSeriousKey)
            /\ result.suggestImmediateAction =
                 Get(JSONparse(j).v, suggestImmediateActionKey)
            /\ result.explanation = Str(trim(m))

\* word (in lower case) occurs in t, letter case ignored
SameLetter(c, l) == c = l \/ \E k \in 1..26 : l = LowerCase[k] /\ c = UpperCase[k]
ContainsIgnoringCase(t, word) ==
  \E i \in 1..(Len(t) - Len(word) + 1) :
     \A k \in 1..Len(word) : SameLetter(t[i + k - 1], word[k])

\* C4: on the fallback path isSerious holds exactly when the text contains
\* "serious" or "severe", suggestImmediateAction exactly when it contains
\* "immediate" or "emergency" (any letter case, as a substring), and the
\* explanation is the raw text unchanged.
C4_FallbackHeuristic ==
  (pc = "resolved" /\ branch = "catch") =>
     /\ result.isSerious =
          Bool(ContainsIgnoringCase(text, serious) \/ ContainsIgnoringCase(text, severe))
     /\ result.suggestImmediateAction =
          Bool(ContainsIgnoringCase(text, immediate) \/ ContainsIgnoringCase(text, emergency))
     /\ result.explanation = Str(text)

\* a response without delimiter that says EMERGENCY went through the catch
\* block and came back urgent, not serious, with the text as it was
C4_Witness ==
  /\ pc = "resolved"
  /\ branch = "catch"
  /\ text = Emergency
  /\ ~includes(text, Dashes)
  /\ result.suggestImmediateAction = Bool(TRUE)
  /\ result.isSerious = Bool(FALSE)
  /\ result.explanation = Str(Emergency)

\* C9: a call issues exactly one upstream request; when the request or the
\* reading of its text fails, the call rejects: no second request, no
\* fallback result.
C9_OneRequestNoRetry ==
  /\ pc # "idle" => Len(requests) = 1
  /\ pc = "rejected" => (result = NoResult /\ branch = "none")

C9_Witness ==
  /\ pc = "rejected"
  /\ Len(requests) = 1
  /\ result = NoResult

\* C10: a request for an input with a photo carries the photo beside the
\* prompt; a request for an input without one carries the prompt alone.
C10_PhotoSubmitted ==
  \A k \in 1..Len(requests) :
     IF input.photoDataUri = undefined
     THEN requests[k] = <<Str(prompt(input))>>
     ELSE /\ \E p \in 1..Len(requests[k]) : requests[k][p] = Str(prompt(input))
          /\ \E p \in 1..Len(requests[k]) : requests[k][p] = input.photoDataUri

(***************************************************************************)
(* Properties of findPractitioners, checked under LookupSpec.              *)
(***************************************************************************)
\* the query string names the city (given in lower case), letter case ignored
Names(q, city) == q.t = "string" /\ ContainsIgnoringCase(q.s, city)
NamesNoCity(q) == ~Names(q, dublin) /\ ~Names(q, cork) /\ ~Names(q, galway)

\* C5 as stated: a query naming no city gets Dublin 0, Cork 0, Galway 0,
\* Dublin 2, Galway 2.
C5_DefaultEndsWithGalway ==
  (lookup # NoCall /\ NamesNoCity(lookup.locationQuery)) =>
     lookup.practitioners =
       <<datasets.dublin[1], datasets.cork[1], datasets.galway[1],
         datasets.dublin[3], datasets.galway[3]>>

\* C5 (amended): a query naming no city gets exactly 5 records: Dublin 0,
\* Cork 0, Galway 0, Dublin 2, Cork 2, in that order.
C5_DefaultList ==
  (lookup # NoCall /\ NamesNoCity(lookup.locationQuery)) =>
     /\ Len(lookup.practitioners) = 5
     /\ lookup.practitioners =
          <<datasets.dublin[1], datasets.cork[1], datasets.galway[1],
            datasets.dublin[3], datasets.cork[3]>>

C5_Witness ==
  /\ lookup.locationQuery = Str(QAtlantis)
  /\ Len(lookup.practitioners) = 5
  /\ lookup.practitioners[5].name = "Cork University Hospital"

\* C6: a query naming Dublin gets the 4 Dublin records in declaration
\* order; one naming Cork and not Dublin the 3 Cork records; one naming
\* Galway and neither of the others the 3 Galway records; letter case and
\* surrounding text do not matter.
C6_CityLists ==
  lookup # NoCall =>
     LET q == lookup.locationQuery
     IN  /\ Names(q, dublin) =>
              (lookup.practitioners = datasets.dublin /\ Len(lookup.practitioners) = 4)
         /\ (Names(q, cork) /\ ~Names(q, dublin)) =>
              (lookup.practitioners = datasets.cork /\ Len(lookup.practitioners) = 3)
         /\ (Names(q, galway) /\ ~Names(q, cork) /\ ~Names(q, dublin)) =>
              (lookup.practitioners = datasets.galway /\ Len(lookup.practitioners) = 3)

C6_Witness ==
  /\ lookup.locationQuery = Str(QDublinIreland)
  /\ Len(lookup.practitioners) = 4
  /\ lookup.practitioners[1].name = "Grand Canal Medical Clinic"
  /\ lookup.practitioners[4].name = "Mater Misericordiae University Hospital"
  /\ earlier.locationQuery = Str(QCorkUpper)
  /\ earlier.practitioners = datasets.cork

\* C7: no call fails; an empty and an absent query return the same 5
\* records as a query that names no city.
C7_EmptyQueryDefault ==
  lookup # NoCall =>
     /\ ~lookup.rejected
     /\ Falsy(lookup.locationQuery) =>
          /\ Len(lookup.practitioners) = 5
          /\ (earlier # NoCall /\ NamesNoCity(earlier.locationQuery)) =>
               lookup.practitioners = earlier.practitioners

C7_Witness ==
  /\ lookup.locationQuery = undefined
  /\ lookup # NoCall
  /\ ~lookup.rejected
  /\ earlier.locationQuery = Str(QAtlantis)
  /\ Len(earlier.practitioners) = 5
  /\ lookup.practitioners = earlier.practitioners

\* the two queries are both absent, or the same string up to letter case
SameLetters(a, b) ==
  /\ Len(a) = Len(b)
  /\ \A i \in 1..Len(a) :
        \/ a[i] = b[i]
        \/ \E k \in 1..26 : {a[i], b[i]} = {LowerCase[k], UpperCase[k]}
EqualLowercased(p, q) ==
  \/ p.t = "undefined" /\ q.t = "undefined"
  \/ p.t = "string" /\ q.t = "string" /\ SameLetters(p.s, q.s)

\* C8: two calls whose queries are equal after lowercasing return equal
\* record sequences, in whatever order and however far apart they are made.
C8_PureInLowercasedQuery ==
  (lookup # NoCall /\ earlier # NoCall
     /\ EqualLowercased(lookup.locationQuery, earlier.locationQuery)) =>
        /\ lookup.practitioners = earlier.practitioners
        /\ lookup.rejected = earlier.rejected

C8_Witness ==
  /\ lookup.locationQuery = Str(QCorkUpper)
  /\ earlier.locationQuery = Str(QCorkLower)
  /\ lookup.practitioners = earlier.practitioners
  /\ Len(lookup.practitioners) = 3

(***************************************************************************)
(* Properties of the module's evaluation, checked under StartupSpec.       *)
(***************************************************************************)
KeyMissing == env.t = "undefined" \/ env.s = <<>>

\* C11: with the key absent or empty, evaluation fails before a client is
\* constructed and no call or upstream request ever happens; with the key
\* present, evaluation succeeds.
C11_KeyRequiredAtStartup ==
  /\ KeyMissing =>
       /\ moduleState \in {"pending", "failed"}
       /\ genAI = NoClient
       /\ pc = "idle"
       /\ requests = <<>>
  /\ ~KeyMissing => moduleState \in {"pending", "initialised"}
  /\ moduleState = "initialised" => genAI = GoogleGenerativeAI(env)

C11_Witness ==
  /\ env = Str(<<>>)
  /\ moduleState = "failed"
  /\ genAI = NoClient
  /\ pc = "idle"

(***************************************************************************)
(* Further properties of analyzeSymptoms (AnalyzerSpec) and of             *)
(* findPractitioners (LookupSpec).                                         *)
(***************************************************************************)
\* everything after the first three-dash delimiter
AfterFirstDelimiter(t) == SubSeq(t, indexOf(t, Dashes) + 1 + Len(Dashes), Len(t))

\* C12: the response is split at the first delimiter only: the explanation
\* returned by the try block is all the text after that delimiter
\* (trimmed), further three-dash sequences included.
C12_SplitAtFirstDelimiter ==
  (pc = "resolved" /\ branch = "try" /\ includes(text, Dashes)) =>
     result.explanation = Str(trim(AfterFirstDelimiter(text)))

\* C13: a query naming several cities gets the full list of the first of
\* Dublin, Cork, Galway that it names, wherever the names stand in it.
C13_CityPriority ==
  lookup # NoCall =>
     LET q == lookup.locationQuery
     IN  /\ (Names(q, dublin) /\ (Names(q, cork) \/ Names(q, galway))) =>
              lookup.practitioners = datasets.dublin
         /\ (~Names(q, dublin) /\ Names(q, cork) /\ Names(q, galway)) =>
              lookup.practitioners = datasets.cork

\* 'galway or dublin', with galway written first, got the Dublin list
C13_Witness ==
  /\ lookup.locationQuery = Str(QGalwayOrDublin)
  /\ indexOf(lookup.locationQuery.s, galway) < indexOf(lookup.locationQuery.s, dublin)
  /\ lookup.practitioners = datasets.dublin

(***************************************************************************)
(* Properties of SymptomCheckerPage, checked under PageSpec.               *)
(***************************************************************************)
HasSettled(c) == c.state \in {"resolved", "rejected"}

\* C14: a submit sets isLoading and clears the result before its call
\* starts; once a call has settled isLoading becomes false; the result on
\* display is set only from a call that resolved; a call that rejected
\* leaves analysis null, raises the 'Analysis Failed' toast and starts no
\* other call.
C14_SubmitLifecycle ==
  /\ [][(calls' \ calls # {} /\ submits' # submits) =>
          (isLoading' /\ analysis' = null
             /\ \A c \in calls' \ calls : c.state = "pending")]_vars
  /\ [][(analysis' # analysis /\ analysis' # null) =>
          \E c \in calls : c.state = "resolved" /\ c \notin calls'
                             /\ analysis' = c.result]_vars
  /\ [][\A c \in calls : (c.state = "rejected" /\ c \notin calls') =>
          (analysis' = null /\ toast' = "Analysis Failed"
             /\ ~isLoading' /\ submits' = submits /\ calls' \subseteq calls)]_vars
  /\ (\E c \in calls : HasSettled(c)) ~> ~isLoading

\* a call rejected and onSubmit resumed: no result, the toast, not loading
C14_Witness ==
  /\ submits = 1
  /\ calls = {}
  /\ ~isLoading
  /\ analysis = null
  /\ toast = "Analysis Failed"

\* position (from 1) of the first marker in e, 0 when there is none
FirstMarker(e) ==
  LET at == {i \in 1..Len(e) :
               /\ i + Len(Marker) - 1 <= Len(e)
               /\ \A k \in 1..Len(Marker) : e[i + k - 1] = Marker[k]}
  IN  IF at = {} THEN 0 ELSE Min(at)

\* C15: the text shown for a string explanation is the explanation from
\* its first '# Likely Cause' on, or the whole explanation when it has no
\* marker; parsing what is shown again changes nothing; a fallback result
\* (the raw response, JSON segment first) is shown from the marker on.
C15_ShownFromMarker ==
  (analysis # null /\ analysis.explanation.t = "string") =>
     LET e == analysis.explanation.s
         d == Displayed
     IN  /\ d.t = "string"
         /\ FirstMarker(e) = 0 => d.s = e
         /\ FirstMarker(e) > 0 =>
              /\ Len(d.s) = Len(e) - FirstMarker(e) + 1
              /\ \A k \in 1..Len(d.s) : d.s[k] = e[FirstMarker(e) + k - 1]
         /\ parseExplanation(d) = d
         /\ (shown.branch = "catch" /\ FirstMarker(shown.text) > 0) =>
              /\ e = shown.text
              /\ FirstMarker(d.s) = 1

\* a fallback result whose raw text starts with a cut JSON segment is on
\* display, from the marker on
C15_Witness ==
  /\ analysis # null
  /\ shown.branch = "catch"
  /\ shown.text = JsonCut \o DelimiterLine \o Markdown
  /\ analysis.explanation = Str(shown.text)
  /\ Displayed = Str(Markdown)

\* C16: while isLoading holds no result is on display; at most one call
\* started by the form is in flight; a result on display is the result of
\* the latest submit.
C16_OneSubmitAtATime ==
  /\ isLoading => analysis = null
  /\ Cardinality(calls) <= 1
  /\ calls # {} => isLoading
  /\ analysis # null => (shown.id = submits /\ analysis = shown.result)

\* a second submit is in flight while the first one's result is gone
C16_Witness ==
  /\ submits = 2
  /\ isLoading
  /\ analysis = null
  /\ \E c \in calls : c.id = 2 /\ c.state = "pending"

====
